---- MODULE Spec2Model ----
(***************************************************************************)
(* Model of go-perun's channel proposal messages (client/proposalmsgs.go)  *)
(* and of the global channel backend exercised by channel/backend_test.go. *)
(*                                                                         *)
(* The three message types are encoded to and decoded from a byte stream.  *)
(* The struct-level code (field order, participant count checks, error     *)
(* wrapping, the registered decoders) is translated from proposalmsgs.go.  *)
(* The field codecs it calls (package wire, pkg/io, wallet, channel) are   *)
(* not part of the sources at hand; they are modelled from the wire format *)
(* table of the specification.                                             *)
(***************************************************************************)
EXTENDS Integers, Sequences, FiniteSets, TLC

(***************************************************************************)
(* The fields of the model's records. TLC keeps the fields of a record in  *)
(* the order in which their names first occur in the module; the records   *)
(* below all list their fields in this order, so that every record value   *)
(* is built in its normal form.                                            *)
(***************************************************************************)
RecordFields ==
    [AppDef |-> 1, ChallengeDuration |-> 2, InitBals |-> 3, InitData |-> 4,
     Nonce |-> 5, ParticipantAddr |-> 6, Parts |-> 7, Reason |-> 8, SessID |-> 9,
     app |-> 10, args |-> 11, bals |-> 12, buf |-> 13, bytes |-> 14, cap |-> 15,
     cause |-> 16, elems |-> 17, err |-> 18, fail |-> 19, failed |-> 20,
     field |-> 21, fn |-> 22, idx |-> 23, installed |-> 24, isNil |-> 25,
     len |-> 26, m |-> 27, method |-> 28, msg |-> 29, numParts |-> 30, ok |-> 31,
     on |-> 32, pos |-> 33, step |-> 34, type |-> 35, val |-> 36, w |-> 37,
     wrapped |-> 38]

(***************************************************************************)
(* Bounds of the model.                                                    *)
(***************************************************************************)
\* Longest participant slice whose elements are enumerated.
MaxParts == 3
\* Longest log of backend method invocations.
MaxCalls == 3

(***************************************************************************)
(* Program constants.                                                      *)
(***************************************************************************)
\* math.MaxInt32
MaxInt32 == 2147483647
\* the minimum number of participants Decode accepts
MinParts == 2
\* type SessionID = [32]byte
SessIDLen == 32
\* length of an encoded wallet address (fixed length: self-delimiting)
AddrLen == 2

(***************************************************************************)
(* Go values.                                                              *)
(*                                                                         *)
(* A Go int (64 bit) that may exceed 32 bits is held as <<q, r>>, standing *)
(* for q * 2^31 + r with 0 <= r < 2^31.                                    *)
(***************************************************************************)
Wide(q, r) == <<q, r>>

\* n > m, for a wide n and 0 <= m < 2^31
WideGt(n, m) == n[1] > 0 \/ n[2] > m

\* the Go conversion int32(n): the low 32 bits of n, read as two's complement
ToInt32(n) == IF n[1] % 2 = 0 THEN n[2] ELSE n[2] - MaxInt32 - 1

MinInt32 == -MaxInt32 - 1

\* errors: nil, an error returned as it is, errors.Errorf, errors.WithMessage
Nil == [args |-> <<>>, cause |-> "", msg |-> ""]
Raw(cause) == [args |-> <<>>, cause |-> cause, msg |-> ""]
Errorf(msg, args) == [args |-> args, cause |-> "", msg |-> msg]
WithMessage(cause, msg) == [args |-> <<>>, cause |-> cause, msg |-> msg]

\* no field codec has failed
NoFail == [cause |-> "", field |-> "", idx |-> -1]
Fail(field, idx, cause) == [cause |-> cause, field |-> field, idx |-> idx]

\* zero values
NilNonce == -1
NilAddr == <<>>
NilData == [app |-> "", bytes |-> <<>>]
NilAlloc == [bals |-> <<>>, isNil |-> TRUE]
NilParts == [elems |-> <<>>, isNil |-> TRUE, len |-> Wide(0, 0)]

\* a slice of n addresses whose leading entries are elems, the others nil
Slice(n, elems) == [elems |-> elems, isNil |-> FALSE, len |-> n]

(***************************************************************************)
(* Writers and readers.                                                    *)
(***************************************************************************)
NoCap == -1

\* an io.Writer that accepts cap bytes and fails after them
Writer(cap) == [buf |-> <<>>, cap |-> cap, cause |-> "", failed |-> 0]

Room(ws) == IF ws.cap = NoCap THEN MaxInt32 ELSE ws.cap - Len(ws.buf)

\* one field written to ws; k is the field's number in the call
WriteField(ws, bytes, k) ==
    IF ws.failed # 0 THEN ws
    ELSE IF Len(bytes) <= Room(ws)
    THEN [ws EXCEPT !.buf = ws.buf \o bytes]
    ELSE [ws EXCEPT !.buf = ws.buf \o SubSeq(bytes, 1, Room(ws)),
                    !.failed = k, !.cause = "short write"]

RECURSIVE WriteFrom(_, _, _)
WriteFrom(ws, fields, k) ==
    IF k > Len(fields) THEN ws
    ELSE WriteFrom(WriteField(ws, fields[k], k), fields, k + 1)

\* wire.Encode / perunio.Encode: the fields in order, up to the first failure
WriteAll(ws, fields) == WriteFrom([ws EXCEPT !.failed = 0, !.cause = ""], fields, 1)

\* n bytes read at pos
ReadN(buf, pos, n) ==
    IF pos + n <= Len(buf)
    THEN [bytes |-> SubSeq(buf, pos + 1, pos + n),
          cause |-> "",
          ok |-> TRUE,
          pos |-> pos + n]
    ELSE [bytes |-> <<>>,
          cause |-> IF pos = Len(buf) THEN "EOF" ELSE "unexpected EOF",
          ok |-> FALSE,
          pos |-> Len(buf)]

(***************************************************************************)
(* Field codecs.                                                           *)
(***************************************************************************)
\* four bytes, most significant first, of 0 <= v < 2^31
BE4(v) == <<v \div 16777216, (v \div 65536) % 256, (v \div 256) % 256, v % 256>>

BE4Of(b) == ((b[1] * 256 + b[2]) * 256 + b[3]) * 256 + b[4]

\* a signed 32 bit integer, two's complement
Int32Bytes(v) ==
    IF v >= 0 THEN BE4(v)
    ELSE LET b == BE4(-(v + 1)) IN [i \in 1..4 |-> 255 - b[i]]

Int32Of(b) ==
    IF b[1] < 128 THEN BE4Of(b)
    ELSE -BE4Of([i \in 1..4 |-> 255 - b[i]]) - 1

\* an unsigned 64 bit integer (the model's values stay below 2^31)
Uint64Bytes(v) == <<0, 0, 0, 0>> \o BE4(v)

Uint64Of(b) == BE4Of(SubSeq(b, 5, 8))

\* a non-negative big integer: a length byte and the magnitude
RECURSIVE Magnitude(_)
Magnitude(v) == IF v = 0 THEN <<>> ELSE Magnitude(v \div 256) \o <<v % 256>>

RECURSIVE MagnitudeOf(_)
MagnitudeOf(b) ==
    IF b = <<>> THEN 0
    ELSE MagnitudeOf(SubSeq(b, 1, Len(b) - 1)) * 256 + b[Len(b)]

BigIntBytes(v) == <<Len(Magnitude(v))>> \o Magnitude(v)

\* wallet.Address.Encode
AddrBytes(a) == a

\* channel.Data.Encode: the data's own bytes
DataBytes(d) == d.bytes

\* channel.Allocation.Encode: the number of balances and the balances
AllocBytes(a) == <<Len(a.bals)>> \o a.bals

\* a length-prefixed string
StringBytes(s) == <<Len(s) \div 256, Len(s) % 256>> \o s

\* the result of decoding one field
Got(val, pos) == [cause |-> "", ok |-> TRUE, pos |-> pos, val |-> val]
Lost(val, rd) == [cause |-> rd.cause, ok |-> FALSE, pos |-> rd.pos, val |-> val]

DecodeUint64(buf, pos) ==
    LET rd == ReadN(buf, pos, 8)
    IN  IF rd.ok THEN Got(Uint64Of(rd.bytes), rd.pos) ELSE Lost(0, rd)

DecodeInt32(buf, pos) ==
    LET rd == ReadN(buf, pos, 4)
    IN  IF rd.ok THEN Got(Int32Of(rd.bytes), rd.pos) ELSE Lost(0, rd)

DecodeBigInt(buf, pos) ==
    LET hd == ReadN(buf, pos, 1)
    IN  IF ~hd.ok THEN Lost(NilNonce, hd)
        ELSE LET rd == ReadN(buf, hd.pos, hd.bytes[1])
             IN  IF rd.ok THEN Got(MagnitudeOf(rd.bytes), rd.pos)
                 ELSE Lost(NilNonce, rd)

\* wallet.DecodeAddress
DecodeAddress(buf, pos) ==
    LET rd == ReadN(buf, pos, AddrLen)
    IN  IF rd.ok THEN Got(rd.bytes, rd.pos) ELSE Lost(NilAddr, rd)

DecodeAlloc(buf, pos) ==
    LET hd == ReadN(buf, pos, 1)
    IN  IF ~hd.ok THEN Lost([bals |-> <<>>, isNil |-> FALSE], hd)
        ELSE LET rd == ReadN(buf, hd.pos, hd.bytes[1])
             IN  IF rd.ok THEN Got([bals |-> rd.bytes, isNil |-> FALSE], rd.pos)
                 ELSE Lost([bals |-> <<>>, isNil |-> FALSE], rd)

DecodeSessID(buf, pos) ==
    LET rd == ReadN(buf, pos, SessIDLen)
    IN  IF rd.ok THEN Got(rd.bytes, rd.pos) ELSE Lost([i \in 1..SessIDLen |-> 0], rd)

DecodeString(buf, pos) ==
    LET hd == ReadN(buf, pos, 2)
    IN  IF ~hd.ok THEN Lost(<<>>, hd)
        ELSE LET rd == ReadN(buf, hd.pos, hd.bytes[1] * 256 + hd.bytes[2])
             IN  IF rd.ok THEN Got(rd.bytes, rd.pos) ELSE Lost(<<>>, rd)

(***************************************************************************)
(* Applications.                                                           *)
(***************************************************************************)
Addr(k) == <<0, k>>

\* the applications known to channel.AppFromDefinition, by definition address
KnownApps == {Addr(1), Addr(2)}

AppName(def) == IF def = Addr(1) THEN "app1" ELSE "app2"

\* the number of bytes of an application's data
DataLen(app) == IF app = "app1" THEN 1 ELSE 2

\* channel.AppFromDefinition
AppFromDefinition(def) ==
    IF def \in KnownApps THEN [app |-> AppName(def), cause |-> "", ok |-> TRUE]
    ELSE [app |-> "", cause |-> "unknown app", ok |-> FALSE]

\* App.DecodeData
DecodeData(app, buf, pos) ==
    LET rd == ReadN(buf, pos, DataLen(app))
    IN  IF rd.ok THEN Got([app |-> app, bytes |-> rd.bytes], rd.pos)
        ELSE Lost(NilData, rd)

(***************************************************************************)
(* ChannelProposal.                                                        *)
(***************************************************************************)
ZeroProposal ==
    [AppDef |-> NilAddr,
     ChallengeDuration |-> 0,
     InitBals |-> NilAlloc,
     InitData |-> NilData,
     Nonce |-> NilNonce,
     ParticipantAddr |-> NilAddr,
     Parts |-> NilParts]

\* the state of an Encode: the writer, the error to return, the codec failure
EncStart(ws) == [err |-> Nil, fail |-> NoFail, w |-> ws]

\* wire.Encode(w, c.ChallengeDuration, c.Nonce)
EncodeHead(c, e) ==
    IF e.err # Nil THEN e
    ELSE LET ws == WriteAll(e.w, <<Uint64Bytes(c.ChallengeDuration),
                                   BigIntBytes(c.Nonce)>>)
         IN  IF ws.failed # 0
             THEN [err |-> Raw(ws.cause),
                   fail |-> Fail(<<"ChallengeDuration", "Nonce">>[ws.failed], -1,
                                 ws.cause),
                   w |-> ws]
             ELSE [e EXCEPT !.w = ws]

\* EncodeBody with AppDef written before ParticipantAddr
EncodeBodySwapped(c, e) ==
    IF e.err # Nil THEN e
    ELSE LET ws == WriteAll(e.w, <<AddrBytes(c.AppDef), AddrBytes(c.ParticipantAddr),
                                   DataBytes(c.InitData), AllocBytes(c.InitBals)>>)
         IN  IF ws.failed # 0
             THEN [err |-> Raw(ws.cause),
                   fail |-> Fail(<<"AppDef", "ParticipantAddr", "InitData",
                                   "InitBals">>[ws.failed], -1, ws.cause),
                   w |-> ws]
             ELSE [e EXCEPT !.w = ws]

\* perunio.Encode(w, c.ParticipantAddr, c.AppDef, c.InitData, c.InitBals)
EncodeBody(c, e) ==
    IF e.err # Nil THEN e
    ELSE LET ws == WriteAll(e.w, <<AddrBytes(c.ParticipantAddr), AddrBytes(c.AppDef),
                                   DataBytes(c.InitData), AllocBytes(c.InitBals)>>)
         IN  IF ws.failed # 0
             THEN [err |-> Raw(ws.cause),
                   fail |-> Fail(<<"ParticipantAddr", "AppDef", "InitData",
                                   "InitBals">>[ws.failed], -1, ws.cause),
                   w |-> ws]
             ELSE [e EXCEPT !.w = ws]

\* TooManyParts comparing after the conversion to int32
TooManyPartsConverted(n) == ToInt32(n) > MaxInt32

\* len(c.Parts) > math.MaxInt32
TooManyParts(n) == WideGt(n, MaxInt32)

\* EncodeCountCheck rejecting fewer than 2 participants as well
EncodeCountCheckWithMinimum(c, e) ==
    IF e.err # Nil THEN e
    ELSE IF TooManyParts(c.Parts.len) \/ ~WideGt(c.Parts.len, 1)
    THEN [e EXCEPT !.err = Errorf("expected maximum number of participants %d, got %d",
                                  <<Wide(0, MaxInt32), c.Parts.len>>)]
    ELSE e

\* if len(c.Parts) > math.MaxInt32 { return errors.Errorf(...) }
EncodeCountCheck(c, e) ==
    IF e.err # Nil THEN e
    ELSE IF TooManyParts(c.Parts.len)
    THEN [e EXCEPT !.err = Errorf("expected maximum number of participants %d, got %d",
                                  <<Wide(0, MaxInt32), c.Parts.len>>)]
    ELSE e

\* numParts := int32(len(c.Parts)); wire.Encode(w, numParts)
EncodeCount(c, e) ==
    IF e.err # Nil THEN e
    ELSE LET ws == WriteAll(e.w, <<Int32Bytes(ToInt32(c.Parts.len))>>)
         IN  IF ws.failed # 0
             THEN [err |-> Raw(ws.cause),
                   fail |-> Fail("numParts", -1, ws.cause),
                   w |-> ws]
             ELSE [e EXCEPT !.w = ws]

\* the error returned when c.Parts[i].Encode(w) fails
PartEncodeError(i, cause) == Errorf("error encoding participant %d", <<i>>)

\* for i := range c.Parts { c.Parts[i].Encode(w) }
EncodeParts(c, e) ==
    IF e.err # Nil THEN e
    ELSE LET elems == c.Parts.elems
             ws == WriteAll(e.w, [i \in 1..Len(elems) |-> AddrBytes(elems[i])])
         IN  IF ws.failed # 0
             THEN [err |-> PartEncodeError(ws.failed - 1, ws.cause),
                   fail |-> Fail("Parts", ws.failed - 1, ws.cause),
                   w |-> ws]
             ELSE IF WideGt(c.Parts.len, Len(elems))
             \* the next entry is a nil address: Encode on it panics
             THEN [err |-> Raw("panic: nil address"), fail |-> NoFail, w |-> ws]
             ELSE [e EXCEPT !.w = ws]

\* func (c ChannelProposal) Encode(w io.Writer) error
ProposalEncode(c, ws) ==
    EncodeParts(c, EncodeCount(c, EncodeCountCheck(c, EncodeBody(c,
        EncodeHead(c, EncStart(ws))))))

\* the state of a Decode: the message, the reader's position, the error to
\* return, the codec failure, the resolved application, the count read
DecStart(m) ==
    [app |-> "",
     err |-> Nil,
     fail |-> NoFail,
     m |-> m,
     numParts |-> 0,
     pos |-> 0,
     step |-> ""]

DecFailed(s, d, field, idx, step) ==
    [s EXCEPT !.pos = d.pos, !.err = Raw(d.cause),
              !.fail = Fail(field, idx, d.cause), !.step = step]

\* wire.Decode(r, &c.ChallengeDuration, &c.Nonce)
DecodeHead(buf, s) ==
    IF s.err # Nil THEN s
    ELSE LET d1 == DecodeUint64(buf, s.pos)
         IN  IF ~d1.ok THEN DecFailed(s, d1, "ChallengeDuration", -1, "ChallengeDuration")
             ELSE LET d2 == DecodeBigInt(buf, d1.pos)
                      s1 == [s EXCEPT !.m.ChallengeDuration = d1.val]
                  IN  IF ~d2.ok THEN DecFailed(s1, d2, "Nonce", -1, "Nonce")
                      ELSE [s1 EXCEPT !.m.Nonce = d2.val, !.pos = d2.pos]

\* c.ParticipantAddr, err = wallet.DecodeAddress(r)
DecodeParticipantAddr(buf, s) ==
    IF s.err # Nil THEN s
    ELSE LET d == DecodeAddress(buf, s.pos)
             s1 == [s EXCEPT !.m.ParticipantAddr = d.val]
         IN  IF ~d.ok THEN DecFailed(s1, d, "ParticipantAddr", -1, "ParticipantAddr")
             ELSE [s1 EXCEPT !.pos = d.pos]

\* c.AppDef, err = wallet.DecodeAddress(r)
DecodeAppDef(buf, s) ==
    IF s.err # Nil THEN s
    ELSE LET d == DecodeAddress(buf, s.pos)
             s1 == [s EXCEPT !.m.AppDef = d.val]
         IN  IF ~d.ok THEN DecFailed(s1, d, "AppDef", -1, "AppDef")
             ELSE [s1 EXCEPT !.pos = d.pos]

\* ResolveApp going on with an application when AppFromDefinition fails
ResolveAppIgnoringError(buf, s) ==
    IF s.err # Nil THEN s
    ELSE LET a == AppFromDefinition(s.m.AppDef)
         IN  [s EXCEPT !.app = IF a.ok THEN a.app ELSE "app1"]

\* app, err = channel.AppFromDefinition(c.AppDef)
ResolveApp(buf, s) ==
    IF s.err # Nil THEN s
    ELSE LET a == AppFromDefinition(s.m.AppDef)
         IN  IF ~a.ok THEN [s EXCEPT !.err = Raw(a.cause), !.step = "App"]
             ELSE [s EXCEPT !.app = a.app]

\* c.InitData, err = app.DecodeData(r)
DecodeInitData(buf, s) ==
    IF s.err # Nil THEN s
    ELSE LET d == DecodeData(s.app, buf, s.pos)
             s1 == [s EXCEPT !.m.InitData = d.val]
         IN  IF ~d.ok THEN DecFailed(s1, d, "InitData", -1, "InitData")
             ELSE [s1 EXCEPT !.pos = d.pos]

\* c.InitBals = &channel.Allocation{}; perunio.Decode(r, c.InitBals)
DecodeInitBals(buf, s) ==
    IF s.err # Nil THEN s
    ELSE LET d == DecodeAlloc(buf, s.pos)
             s1 == [s EXCEPT !.m.InitBals = d.val]
         IN  IF ~d.ok THEN DecFailed(s1, d, "InitBals", -1, "InitBals")
             ELSE [s1 EXCEPT !.pos = d.pos]

\* var numParts int32; wire.Decode(r, &numParts)
DecodeNumParts(buf, s) ==
    IF s.err # Nil THEN s
    ELSE LET d == DecodeInt32(buf, s.pos)
         IN  IF ~d.ok THEN DecFailed(s, d, "numParts", -1, "numParts")
             ELSE [s EXCEPT !.numParts = d.val, !.pos = d.pos]

\* TooFewParts off by one
TooFewPartsOffByOne(numParts) == numParts < MinParts - 1

\* numParts < 2
TooFewParts(numParts) == numParts < MinParts

CheckNumParts(buf, s) ==
    IF s.err # Nil THEN s
    ELSE IF TooFewParts(s.numParts)
    THEN [s EXCEPT !.err = Errorf("expected at least 2 participants, got %d",
                                  <<s.numParts>>),
                   !.step = "Count"]
    ELSE s

\* for i := 0; i < len(c.Parts); i++ { c.Parts[i], err = wallet.DecodeAddress(r) }
RECURSIVE DecodePartsFrom(_, _, _, _, _)
DecodePartsFrom(buf, pos, i, n, elems) ==
    IF i >= n THEN [cause |-> "", elems |-> elems, idx |-> -1, ok |-> TRUE, pos |-> pos]
    ELSE LET d == DecodeAddress(buf, pos)
         IN  IF ~d.ok
             THEN [cause |-> d.cause,
                   elems |-> elems,
                   idx |-> i,
                   ok |-> FALSE,
                   pos |-> d.pos]
             ELSE DecodePartsFrom(buf, d.pos, i + 1, n, Append(elems, d.val))

\* DecodeParts with a loop that ends one participant early
DecodePartsOneShort(buf, s) ==
    IF s.err # Nil THEN s
    ELSE LET d == DecodePartsFrom(buf, s.pos, 0, s.numParts - 1, <<>>)
             s1 == [s EXCEPT !.m.Parts = Slice(Wide(0, s.numParts), d.elems),
                             !.pos = d.pos]
         IN  IF ~d.ok
             THEN [s1 EXCEPT !.err = Raw(d.cause),
                             !.fail = Fail("Parts", d.idx, d.cause), !.step = "Parts"]
             ELSE s1

\* c.Parts = make([]wallet.Address, numParts) and the loop filling it
DecodeParts(buf, s) ==
    IF s.err # Nil THEN s
    ELSE LET d == DecodePartsFrom(buf, s.pos, 0, s.numParts, <<>>)
             s1 == [s EXCEPT !.m.Parts = Slice(Wide(0, s.numParts), d.elems),
                             !.pos = d.pos]
         IN  IF ~d.ok
             THEN [s1 EXCEPT !.err = Raw(d.cause),
                             !.fail = Fail("Parts", d.idx, d.cause), !.step = "Parts"]
             ELSE s1

\* func (c *ChannelProposal) Decode(r io.Reader) (err error)
ProposalDecode(m, buf) ==
    DecodeParts(buf, CheckNumParts(buf, DecodeNumParts(buf, DecodeInitBals(buf,
        DecodeInitData(buf, ResolveApp(buf, DecodeAppDef(buf,
            DecodeParticipantAddr(buf, DecodeHead(buf, DecStart(m))))))))))

(***************************************************************************)
(* ChannelProposalAcc and ChannelProposalRej.                              *)
(***************************************************************************)
ZeroSessID == [i \in 1..SessIDLen |-> 0]

ZeroAcc == [ParticipantAddr |-> NilAddr, SessID |-> ZeroSessID]

ZeroRej == [Reason |-> <<>>, SessID |-> ZeroSessID]

\* func (acc ChannelProposalAcc) Encode(w io.Writer) error
AccEncode(acc, ws) ==
    LET w1 == WriteAll(ws, <<acc.SessID>>)
    IN  IF w1.failed # 0
        THEN [err |-> WithMessage(w1.cause, "SID encoding"),
              fail |-> Fail("SessID", -1, w1.cause),
              w |-> w1]
        ELSE LET w2 == WriteAll(w1, <<AddrBytes(acc.ParticipantAddr)>>)
             IN  IF w2.failed # 0
                 THEN [err |-> WithMessage(w2.cause, "participant address encoding"),
                       fail |-> Fail("ParticipantAddr", -1, w2.cause),
                       w |-> w2]
                 ELSE [err |-> Nil, fail |-> NoFail, w |-> w2]

\* func (acc *ChannelProposalAcc) Decode(r io.Reader) (err error)
AccDecode(m, buf) ==
    LET s == DecStart(m)
        d1 == DecodeSessID(buf, 0)
    IN  IF ~d1.ok
        THEN [s EXCEPT !.pos = d1.pos, !.err = WithMessage(d1.cause, "SID decoding"),
                       !.fail = Fail("SessID", -1, d1.cause), !.step = "SessID"]
        ELSE LET d2 == DecodeAddress(buf, d1.pos)
                 s1 == [s EXCEPT !.m.SessID = d1.val, !.m.ParticipantAddr = d2.val,
                                 !.pos = d2.pos]
             IN  IF ~d2.ok
                 THEN [s1 EXCEPT !.err = WithMessage(d2.cause,
                                                     "participant address decoding"),
                                 !.fail = Fail("ParticipantAddr", -1, d2.cause),
                                 !.step = "ParticipantAddr"]
                 ELSE s1

\* func (rej ChannelProposalRej) Encode(w io.Writer) error
RejEncode(rej, ws) ==
    LET w1 == WriteAll(ws, <<rej.SessID, StringBytes(rej.Reason)>>)
    IN  IF w1.failed # 0
        THEN [err |-> Raw(w1.cause),
              fail |-> Fail(<<"SessID", "Reason">>[w1.failed], -1, w1.cause),
              w |-> w1]
        ELSE [err |-> Nil, fail |-> NoFail, w |-> w1]

\* func (rej *ChannelProposalRej) Decode(r io.Reader) error
RejDecode(m, buf) ==
    LET s == DecStart(m)
        d1 == DecodeSessID(buf, 0)
    IN  IF ~d1.ok THEN DecFailed(s, d1, "SessID", -1, "SessID")
        ELSE LET d2 == DecodeString(buf, d1.pos)
                 s1 == [s EXCEPT !.m.SessID = d1.val]
             IN  IF ~d2.ok THEN DecFailed(s1, d2, "Reason", -1, "Reason")
                 ELSE [s1 EXCEPT !.m.Reason = d2.val, !.pos = d2.pos]

(***************************************************************************)
(* The decoders registered with the message registry.                      *)
(***************************************************************************)
NoMsg == [isNil |-> TRUE, type |-> "", val |-> <<>>]

\* &m
MsgPtr(type, m) == [isNil |-> FALSE, type |-> type, val |-> m]

\* DecoderReturn dropping Decode's error
DecoderReturnNoError(type, s) == [err |-> Nil, msg |-> MsgPtr(type, s.m)]

\* what a registered decoder returns for a Decode that ended in state s
DecoderReturn(type, s) == [err |-> s.err, msg |-> MsgPtr(type, s.m)]

(***************************************************************************)
(* The messages and writers the model draws its inputs from.               *)
(***************************************************************************)
Durations == {0, 100}

Nonces == {0, 42}

PartAddrs == {Addr(1), Addr(2)}

\* Addr(3) is the definition of no known application
AppDefs == {Addr(1), Addr(2), Addr(3)}

Datas == {[app |-> "app1", bytes |-> <<5>>], [app |-> "app2", bytes |-> <<6, 7>>]}

Allocs == {[bals |-> <<>>, isNil |-> FALSE], [bals |-> <<1, 2>>, isNil |-> FALSE]}

\* lengths beyond 2^31 - 1: 2^31, 2^31 + 1, 2^32 + 2
BigLens == {Wide(1, 0), Wide(1, 1), Wide(2, 2)}

SeqsUpTo(S, n) == UNION {[1..k -> S] : k \in 0..n}

PartsValues ==
    {NilParts} \cup {Slice(Wide(0, Len(e)), e) : e \in SeqsUpTo(PartAddrs, MaxParts)}
               \cup {Slice(n, <<>>) : n \in BigLens}

Proposals ==
    [AppDef : AppDefs,
     ChallengeDuration : Durations,
     InitBals : Allocs,
     InitData : Datas,
     Nonce : Nonces,
     ParticipantAddr : PartAddrs,
     Parts : PartsValues]

SessIDs == {ZeroSessID, [i \in 1..SessIDLen |-> i]}

Accs == [ParticipantAddr : PartAddrs, SessID : SessIDs]

Reasons == {<<>>, <<110, 111>>}

Rejs == [Reason : Reasons, SessID : SessIDs]

\* the capacities of the writers a message is encoded to: unlimited, or too
\* short for what the message's Encode writes to an unlimited one
Caps(full) == {NoCap} \cup 0..(Len(full) - 1)

\* the participant counts a received proposal's count is replaced by
TamperCounts == {MinInt32, -1, 0, 1, 2, MaxParts + 1, MaxInt32}

\* where the participant count of an encoded proposal starts
CountOffset(c) == Len(EncodeBody(c, EncodeHead(c, EncStart(Writer(NoCap)))).w.buf)

\* buf with the four bytes after off replaced by the count n
WithCount(buf, off, n) ==
    SubSeq(buf, 1, off) \o Int32Bytes(n) \o SubSeq(buf, off + 5, Len(buf))

(***************************************************************************)
(* State.                                                                  *)
(***************************************************************************)
VARIABLES
    last,     \* the operation that ran last
    mtype,    \* the type of the message last encoded
    msg,      \* the message last encoded
    enc,      \* how its Encode ended: the writer, the error, the codec failure
    rbuf,     \* the bytes the last decoder read from
    dec,      \* how its Decode ended: the message, the reader's position, ...
    ret,      \* what the registered decoder returned
    backend,  \* the backend installed in package channel
    lastSet,  \* the argument of the latest SetBackend
    reqs,     \* the calls of the package-level functions, in order
    calls,    \* the backend methods invoked, in order
    out       \* what the latest package-level call returned

msgVars == <<last, mtype, msg, enc, rbuf, dec, ret>>

backendVars == <<backend, lastSet, reqs, calls, out>>

vars == <<last, mtype, msg, enc, rbuf, dec, ret, backend, lastSet, reqs, calls, out>>

\* the messages of a type, and what the type's Encode does with one
Messages(type) ==
    CASE type = "ChannelProposal" -> Proposals
      [] type = "ChannelProposalAcc" -> Accs
      [] type = "ChannelProposalRej" -> Rejs

Encode(type, m, ws) ==
    CASE type = "ChannelProposal" -> ProposalEncode(m, ws)
      [] type = "ChannelProposalAcc" -> AccEncode(m, ws)
      [] type = "ChannelProposalRej" -> RejEncode(m, ws)

BackendIdle ==
    /\ backend = "nil"
    /\ lastSet = "nil"
    /\ reqs = <<>>
    /\ calls = <<>>
    /\ out = <<>>

\* a message to encode and the writer to encode it to
Init ==
    /\ last = "init"
    /\ mtype \in {"ChannelProposal", "ChannelProposalAcc", "ChannelProposalRej"}
    /\ msg \in Messages(mtype)
    /\ \E cap \in Caps(Encode(mtype, msg, Writer(NoCap)).w.buf) :
           enc = EncStart(Writer(cap))
    /\ rbuf = <<>>
    /\ dec = DecStart(<<>>)
    /\ ret = [err |-> Nil, msg |-> NoMsg]
    /\ BackendIdle

EncodeProposal ==
    /\ last = "init"
    /\ mtype = "ChannelProposal"
    /\ last' = "Encode"
    /\ enc' = ProposalEncode(msg, enc.w)
    /\ UNCHANGED <<mtype, msg, rbuf, dec, ret>>
    /\ UNCHANGED backendVars

EncodeAcc ==
    /\ last = "init"
    /\ mtype = "ChannelProposalAcc"
    /\ last' = "Encode"
    /\ enc' = AccEncode(msg, enc.w)
    /\ UNCHANGED <<mtype, msg, rbuf, dec, ret>>
    /\ UNCHANGED backendVars

EncodeRej ==
    /\ last = "init"
    /\ mtype = "ChannelProposalRej"
    /\ last' = "Encode"
    /\ enc' = RejEncode(msg, enc.w)
    /\ UNCHANGED <<mtype, msg, rbuf, dec, ret>>
    /\ UNCHANGED backendVars

\* the registered decoder of type mtype read buf and its Decode ended in s
Decoded(buf, s) ==
    /\ last' = "Decode"
    /\ rbuf' = buf
    /\ dec' = s
    /\ ret' = DecoderReturn(mtype, s)
    /\ UNCHANGED <<mtype, msg, enc>>
    /\ UNCHANGED backendVars

\* the registered decoder of ChannelProposal, on the bytes Encode wrote
DecodeProposal ==
    /\ last = "Encode"
    /\ mtype = "ChannelProposal"
    /\ Decoded(enc.w.buf, ProposalDecode(ZeroProposal, enc.w.buf))

\* the same, on those bytes with the participant count replaced
DecodeTampered ==
    /\ last = "Encode"
    /\ mtype = "ChannelProposal"
    /\ enc.err = Nil
    /\ \E n \in TamperCounts :
        LET buf == WithCount(enc.w.buf, CountOffset(msg), n)
        IN  Decoded(buf, ProposalDecode(ZeroProposal, buf))

DecodeAcc ==
    /\ last = "Encode"
    /\ mtype = "ChannelProposalAcc"
    /\ Decoded(enc.w.buf, AccDecode(ZeroAcc, enc.w.buf))

DecodeRej ==
    /\ last = "Encode"
    /\ mtype = "ChannelProposalRej"
    /\ Decoded(enc.w.buf, RejDecode(ZeroRej, enc.w.buf))

(***************************************************************************)
(* The global backend of package channel.                                  *)
(***************************************************************************)
\* the test's mockBackend, and another implementation of Backend
Backends == {"mock", "other"}

\* the arguments of ChannelID(p), Sign(acc, p, s) and Verify(addr, p, s, sig)
ArgsOf(fn) ==
    CASE fn = "ChannelID" -> {<<"nil">>, <<"p">>}
      [] fn = "Sign" -> {<<"nil", "nil", "nil">>, <<"acc", "p", "s">>}
      [] fn = "Verify" -> {<<"nil", "nil", "nil", "nil">>, <<"addr", "p", "s", "sig">>}

\* what mockBackend's methods return: Zero; nil, nil; false, nil
MockReturn(method) ==
    CASE method = "ChannelID" -> <<"Zero">>
      [] method = "Sign" -> <<"nil", "nil">>
      [] method = "Verify" -> <<"false", "nil">>

\* what a method of backend b returns
MethodReturn(b, method, args) ==
    IF b = "mock" THEN MockReturn(method) ELSE <<b, method, args>>

\* a method of backend b, invoked with args; the mock asserts that it is
\* reached through the package-level function of the same name
Invocation(b, method, args, fn) ==
    [args |-> args, method |-> method, on |-> b, wrapped |-> fn = method]

\* Installed keeping the backend installed first
InstalledFirstWins(old, b) == IF old = "nil" THEN b ELSE old

\* the backend installed after SetBackend(b)
Installed(old, b) == b

SetBackend ==
    /\ out # <<"panic">>
    /\ \E b \in Backends :
        /\ backend' = Installed(backend, b)
        /\ lastSet' = b
    /\ UNCHANGED <<reqs, calls, out>>
    /\ UNCHANGED msgVars

\* the package-level function fn, called with args: it calls the method of
\* the same name on the installed backend; with none installed it panics
Delegate(fn, args) ==
    /\ out # <<"panic">>
    /\ Len(reqs) < MaxCalls
    /\ reqs' = Append(reqs, [args |-> args, fn |-> fn, installed |-> lastSet])
    /\ IF backend = "nil"
       THEN /\ out' = <<"panic">>
            /\ calls' = calls
       ELSE /\ calls' = Append(calls, Invocation(backend, fn, args, fn))
            /\ out' = MethodReturn(backend, fn, args)
    /\ UNCHANGED <<backend, lastSet>>
    /\ UNCHANGED msgVars

ChannelID ==
    /\ TRUE
    /\ \E args \in ArgsOf("ChannelID") : Delegate("ChannelID", args)

Sign ==
    /\ TRUE
    /\ \E args \in ArgsOf("Sign") : Delegate("Sign", args)

Verify ==
    /\ TRUE
    /\ \E args \in ArgsOf("Verify") : Delegate("Verify", args)

\* no message is in flight
InitBackend ==
    /\ last = "init"
    /\ mtype = ""
    /\ msg = <<>>
    /\ enc = EncStart(Writer(NoCap))
    /\ rbuf = <<>>
    /\ dec = DecStart(<<>>)
    /\ ret = [err |-> Nil, msg |-> NoMsg]
    /\ BackendIdle

NextBackend ==
    \/ SetBackend
    \/ ChannelID
    \/ Sign
    \/ Verify

SpecBackend == InitBackend /\ [][NextBackend]_vars

Next ==
    \/ EncodeProposal
    \/ EncodeAcc
    \/ EncodeRej
    \/ DecodeProposal
    \/ DecodeTampered
    \/ DecodeAcc
    \/ DecodeRej

Spec == Init /\ [][Next]_vars

(***************************************************************************)
(* Properties.                                                             *)
(***************************************************************************)
IsProposal == mtype = "ChannelProposal"

\* the writer given to Encode never fails
SoundWriter == enc.w.cap = NoCap

\* the decoder read exactly the bytes Encode wrote
ReadWritten == last = "Decode" /\ rbuf = enc.w.buf

\* the application named by AppDef is known and InitData is data of it
ValidApp(c) == c.AppDef \in KnownApps /\ c.InitData.app = AppName(c.AppDef)

\* all participants are enumerated and there are no more than 2^31 - 1
Enumerated(parts) == parts.len = Wide(0, Len(parts.elems))

ValidMsg ==
    IsProposal => /\ ValidApp(msg)
                  /\ Enumerated(msg.Parts)
                  /\ Len(msg.Parts.elems) >= 2

IsPrefix(a, b) == Len(a) <= Len(b) /\ SubSeq(b, 1, Len(a)) = a

\* the encodings of the six fields that precede the participant count
HeadBytes(c) ==
    Uint64Bytes(c.ChallengeDuration) \o BigIntBytes(c.Nonce)
        \o AddrBytes(c.ParticipantAddr) \o AddrBytes(c.AppDef)
        \o DataBytes(c.InitData) \o AllocBytes(c.InitBals)

\* the participant count the decoder's input holds after the six fields
HasWireCount == Len(rbuf) >= Len(HeadBytes(msg)) + 4

WireCount == Int32Of(SubSeq(rbuf, Len(HeadBytes(msg)) + 1, Len(HeadBytes(msg)) + 4))

CountError(n) == Errorf("expected at least 2 participants, got %d", <<n>>)

\* C1: round trip. Encode of a valid message to a writer that does not fail
\* succeeds, and the decoder applied to exactly the bytes written succeeds,
\* yields a message equal to the encoded one in every field, and consumes
\* exactly the bytes written.
C1_RoundTrip ==
    /\ (last # "init" /\ ValidMsg /\ SoundWriter) => enc.err = Nil
    /\ (ReadWritten /\ ValidMsg /\ enc.err = Nil) =>
           /\ dec.err = Nil
           /\ dec.m = msg
           /\ dec.pos = Len(enc.w.buf)
           /\ ret = [err |-> Nil, msg |-> MsgPtr(mtype, msg)]

C1_Witness ==
    /\ ReadWritten /\ IsProposal /\ ValidMsg /\ enc.err = Nil
    /\ Len(msg.Parts.elems) = 3
    /\ msg.Parts.elems[1] # msg.Parts.elems[2]
    /\ msg.ParticipantAddr # msg.AppDef
    /\ msg.Nonce = 42
    /\ dec.m = msg

\* C2: a proposal whose fields before the participant count decode and whose
\* count is below 2 (negative counts included) fails to decode with the error
\* naming the count; the reader stays right behind the count, and Parts is
\* not assigned.
C2_MinParticipants ==
    (last = "Decode" /\ IsProposal /\ enc.err = Nil /\ ValidApp(msg)
        /\ HasWireCount /\ WireCount < 2) =>
           /\ dec.err = CountError(WireCount)
           /\ ret.err = CountError(WireCount)
           /\ dec.pos = Len(HeadBytes(msg)) + 4
           /\ dec.m.Parts = NilParts

C2_Witness ==
    /\ last = "Decode" /\ IsProposal /\ ValidApp(msg)
    /\ HasWireCount /\ WireCount = -1
    /\ dec.err = CountError(-1)
    /\ Len(rbuf) >= dec.pos + 2 * AddrLen

\* C3 as claimed: Encode of a proposal with more than 2^31 - 1 participants
\* fails with the error reporting the limit and the count before any byte is
\* written.
C3_NothingWritten ==
    (last = "Encode" /\ IsProposal /\ SoundWriter
        /\ WideGt(msg.Parts.len, MaxInt32)) =>
           /\ enc.err = Errorf("expected maximum number of participants %d, got %d",
                               <<Wide(0, MaxInt32), msg.Parts.len>>)
           /\ enc.w.buf = <<>>

\* C3 as amended: Encode of a proposal with more than 2^31 - 1 participants
\* fails before the participant count or any participant is written. What
\* has been written by then is the six fields before the count, or a prefix
\* of them if the writer failed; unless the writer failed, the error reports
\* the limit and the count.
C3_CountNotWritten ==
    (last = "Encode" /\ IsProposal /\ WideGt(msg.Parts.len, MaxInt32)) =>
        /\ enc.err # Nil
        /\ IsPrefix(enc.w.buf, HeadBytes(msg))
        /\ SoundWriter =>
               /\ enc.w.buf = HeadBytes(msg)
               /\ enc.err = Errorf("expected maximum number of participants %d, got %d",
                                   <<Wide(0, MaxInt32), msg.Parts.len>>)

C3_Witness ==
    /\ last = "Encode" /\ IsProposal /\ SoundWriter
    /\ msg.Parts.len = Wide(2, 2)
    /\ enc.err.args = <<Wide(0, MaxInt32), Wide(2, 2)>>
    /\ enc.w.buf = HeadBytes(msg)
    /\ Len(enc.w.buf) > 0

\* the steps of ChannelProposal.Decode, in order, and the step assigning a field
DecodeSteps ==
    <<"ChallengeDuration", "Nonce", "ParticipantAddr", "AppDef", "App", "InitData",
      "InitBals", "numParts", "Count", "Parts">>

StepNo(step) == CHOOSE i \in 1..Len(DecodeSteps) : DecodeSteps[i] = step

ProposalFields ==
    {"ChallengeDuration", "Nonce", "ParticipantAddr", "AppDef", "InitData",
     "InitBals", "Parts"}

\* C4 as claimed: when decoding a proposal fails, the registered decoder
\* returns no message together with the error.
C4_NoMessageReturned ==
    (last = "Decode" /\ IsProposal /\ dec.err # Nil) => ret.msg.isNil

\* C4 as amended: when decoding a proposal fails at some step, the decode is
\* aborted there: no later field is assigned, and the error is returned, so
\* that a message returned without an error has every field decoded and at
\* least 2 participants. The registered decoder returns the error together
\* with a pointer to the message as far as it was decoded, not without one.
C4_ErrorWithPartialMessage ==
    (last = "Decode" /\ IsProposal) =>
        /\ ret = [err |-> dec.err, msg |-> MsgPtr("ChannelProposal", dec.m)]
        /\ dec.err # Nil =>
               /\ dec.step \in {DecodeSteps[i] : i \in 1..Len(DecodeSteps)}
               /\ \A f \in ProposalFields :
                      StepNo(f) > StepNo(dec.step) => dec.m[f] = ZeroProposal[f]
               /\ \A f \in ProposalFields \ {"ChallengeDuration"} :
                      StepNo(f) < StepNo(dec.step) => dec.m[f] # ZeroProposal[f]
        /\ dec.err = Nil =>
               /\ dec.step = ""
               /\ \A f \in ProposalFields \ {"ChallengeDuration"} :
                      dec.m[f] # ZeroProposal[f]
               /\ Enumerated(dec.m.Parts)
               /\ Len(dec.m.Parts.elems) >= 2

C4_Witness ==
    /\ last = "Decode" /\ IsProposal
    /\ dec.step = "Parts" /\ dec.fail.idx = 1
    /\ ret.err # Nil
    /\ ~ret.msg.isNil
    /\ ret.msg.val.Nonce = 42
    /\ Len(ret.msg.val.Parts.elems) = 1

\* C5: when the decoded AppDef is the definition of no known application,
\* Decode fails with AppFromDefinition's error right after reading AppDef:
\* the reader stays behind AppDef, and InitData, InitBals and Parts are not
\* assigned.
C5_UnknownApp ==
    (last = "Decode" /\ IsProposal /\ msg.AppDef \notin KnownApps
        /\ Len(rbuf) >= Len(Uint64Bytes(msg.ChallengeDuration) \o BigIntBytes(msg.Nonce))
                            + 2 * AddrLen) =>
           /\ dec.err = Raw("unknown app")
           /\ ret.err = Raw("unknown app")
           /\ dec.m.AppDef = msg.AppDef
           /\ dec.pos = Len(Uint64Bytes(msg.ChallengeDuration) \o BigIntBytes(msg.Nonce))
                            + 2 * AddrLen
           /\ dec.m.InitData = NilData
           /\ dec.m.InitBals = NilAlloc
           /\ dec.m.Parts = NilParts

C5_Witness ==
    /\ last = "Decode" /\ IsProposal
    /\ msg.AppDef = Addr(3)
    /\ enc.err = Nil
    /\ dec.err = Raw("unknown app")
    /\ Len(rbuf) > dec.pos + 4

\* C6: every package-level ChannelID, Sign or Verify called after SetBackend
\* invokes exactly once the method of the same name of the backend installed
\* by the latest SetBackend, with its own arguments, and returns that
\* method's result; no other method is invoked.
C6_Delegation ==
    /\ Len(calls) = Cardinality({i \in 1..Len(reqs) : reqs[i].installed # "nil"})
    /\ \A i \in 1..Len(calls) :
           calls[i] = Invocation(reqs[i].installed, reqs[i].fn, reqs[i].args,
                                 reqs[i].fn)
    /\ (reqs # <<>> /\ reqs[Len(reqs)].installed # "nil") =>
           out = MethodReturn(reqs[Len(reqs)].installed, reqs[Len(reqs)].fn,
                              reqs[Len(reqs)].args)

C6_Witness ==
    /\ Len(calls) = 3
    /\ calls[1].on = "mock" /\ calls[1].method = "ChannelID"
    /\ calls[2].on = "other" /\ calls[2].method = "Sign"
    /\ calls[3].on = "mock" /\ calls[3].method = "Verify"
    /\ calls[3].args = <<"addr", "p", "s", "sig">>
    /\ out = <<"false", "nil">>

\* C7, as far as this code decides it: whenever a field codec fails during
\* Encode or Decode of one of the three messages, the returned error carries
\* the underlying failure.
C7_FailureCarried ==
    /\ (last # "init" /\ enc.fail # NoFail) => enc.err.cause = enc.fail.cause
    /\ (last = "Decode" /\ dec.fail # NoFail) => dec.err.cause = dec.fail.cause

\* C9: Encode of a proposal to a writer that does not fail fails only for more
\* than 2^31 - 1 participants; with 0 or 1 participants it succeeds and writes
\* that count, and the decoder applied to the bytes written fails with the
\* error naming the count.
C9_EncodeNoMinimum ==
    /\ (last # "init" /\ IsProposal /\ SoundWriter) =>
           (enc.err = Nil <=> ~WideGt(msg.Parts.len, MaxInt32))
    /\ (last # "init" /\ IsProposal /\ SoundWriter
           /\ msg.Parts.len \in {Wide(0, 0), Wide(0, 1)}) =>
           /\ enc.err = Nil
           /\ SubSeq(enc.w.buf, Len(HeadBytes(msg)) + 1, Len(HeadBytes(msg)) + 4)
                  = <<0, 0, 0, msg.Parts.len[2]>>
    /\ (ReadWritten /\ IsProposal /\ enc.err = Nil /\ ValidApp(msg)
           /\ msg.Parts.len \in {Wide(0, 0), Wide(0, 1)}) =>
           /\ dec.err = CountError(msg.Parts.len[2])
           /\ ret.err = CountError(msg.Parts.len[2])

C9_Witness ==
    /\ ReadWritten /\ IsProposal /\ enc.err = Nil /\ ValidApp(msg)
    /\ msg.Parts.len = Wide(0, 1)
    /\ Len(msg.Parts.elems) = 1
    /\ dec.err = CountError(1)

\* C10: Decode assigns Parts only when the count it read is at least 2, and
\* then a slice of exactly that many entries; when Decode succeeds the count
\* is between 2 and 2^31 - 1 and the entries are the addresses that follow
\* the count in the input, in their order.
C10_PartsMatchCount ==
    (last = "Decode" /\ IsProposal) =>
        /\ (ValidApp(msg) /\ HasWireCount) => dec.numParts = WireCount
        /\ ~dec.m.Parts.isNil =>
               /\ dec.numParts >= 2
               /\ dec.m.Parts.len = Wide(0, dec.numParts)
               /\ Len(dec.m.Parts.elems) <= dec.numParts
        /\ dec.err = Nil =>
               /\ ~dec.m.Parts.isNil
               /\ 2 <= dec.numParts /\ dec.numParts <= MaxInt32
               /\ Len(dec.m.Parts.elems) = dec.numParts
               /\ \A i \in 1..dec.numParts :
                      dec.m.Parts.elems[i] =
                          SubSeq(rbuf, dec.pos - (dec.numParts - i + 1) * AddrLen + 1,
                                 dec.pos - (dec.numParts - i) * AddrLen)

C10_Witness ==
    /\ last = "Decode" /\ IsProposal /\ ValidApp(msg)
    /\ dec.err = Nil
    /\ HasWireCount /\ WireCount = 2
    /\ Len(msg.Parts.elems) = 3
    /\ dec.m.Parts.elems = SubSeq(msg.Parts.elems, 1, 2)
    /\ dec.m.Parts.elems[1] # dec.m.Parts.elems[2]
    /\ dec.pos < Len(rbuf)

====
